---- MODULE Spec2Model ----
(***************************************************************************)
(* A model of src/app.py (the NeuroMetabolic Framework Streamlit script):  *)
(* the KEGG record parser get_kegg_genes, the mechanism classifier         *)
(* assign_role, and one run of the script (LOAD DATA, tab1, tab2, tab3).   *)
(*                                                                         *)
(* Python strings are modelled as sequences of one-character strings, so   *)
(* that startswith, replace, strip, split, lower and `in` are computed as  *)
(* Python computes them.  Role labels are written without their leading    *)
(* display glyph.                                                          *)
(***************************************************************************)
EXTENDS Integers, Sequences, FiniteSets, TLC

VARIABLES
    \* ---- get_kegg_genes, one call (SpecParse) ----
    response,         \* result of requests.get: [kind, status_code, text]
    ppc,              \* position in get_kegg_genes
    idx,              \* number of lines of the for loop already processed
    is_gene_section,  \* the flag of line 32
    genes,            \* the list of line 29
    origin,           \* history: origin[j] = index of the line genes[j] came from
    flagAt,           \* history: flagAt[i] = the flag when line i reached line 40
    \* ---- assign_role, one call (SpecRole) ----
    rpc,              \* "call" before the call, "done" after it
    symbol, desc, disease_name,   \* the arguments
    role,             \* the returned label
    \* ---- one run of the script (Spec) ----
    pc,               \* the block of the script that runs next
    disease_choice,   \* line 114
    tie,              \* how the build's sort orders rows of equal key
    df,               \* the gene table of line 118, with the columns added later
    exc,              \* the exception that ended the run, or "none"
    top_10,           \* line 152
    selected_roles, remove_core,  \* the widgets of lines 182 and 184
    G,                \* the graph of line 186: [nodes, edges]
    tables,           \* history: the tables handed to fisher_exact, per mechanism
    res_df,           \* the enrichment table of lines 231-232
    manuscript        \* the summary of lines 261-264, when the button is pressed

parseVars == <<response, ppc, idx, is_gene_section, genes, origin, flagAt>>
roleVars  == <<rpc, symbol, desc, disease_name, role>>
pipeVars  == <<pc, disease_choice, tie, df, exc, top_10, selected_roles,
               remove_core, G, tables, res_df, manuscript>>
vars      == <<parseVars, roleVars, pipeVars>>

-----------------------------------------------------------------------------
(* Python str primitives over sequences of characters *)

Chars(s) == [i \in 1..Len(s) |-> SubSeq(s, i, i)]

IsSpace(c) == c = " "

\* whether p occurs in s at position i
MatchAt(s, p, i) ==
    i + Len(p) - 1 <= Len(s) /\ \A j \in 1..Len(p) : s[i + j - 1] = p[j]

startswith(s, p) == MatchAt(s, p, 1)

\* Python `sub in s`
contains(s, sub) == \E i \in 1..(Len(s) - Len(sub) + 1) : MatchAt(s, sub, i)

\* s.replace(old, new): every non-overlapping occurrence, left to right
RECURSIVE replaceFrom(_, _, _, _)
replaceFrom(s, old, new, i) ==
    IF i > Len(s) THEN <<>>
    ELSE IF MatchAt(s, old, i) THEN new \o replaceFrom(s, old, new, i + Len(old))
    ELSE <<s[i]>> \o replaceFrom(s, old, new, i + 1)

replace(s, old, new) == replaceFrom(s, old, new, 1)

\* the first position at or after i that holds no whitespace, or Len(s) + 1
RECURSIVE SkipSpaces(_, _)
SkipSpaces(s, i) == IF i <= Len(s) /\ IsSpace(s[i]) THEN SkipSpaces(s, i + 1) ELSE i

\* the last position at or before i that holds no whitespace, or 0
RECURSIVE SkipSpacesBack(_, _)
SkipSpacesBack(s, i) == IF i >= 1 /\ IsSpace(s[i]) THEN SkipSpacesBack(s, i - 1) ELSE i

lstrip(s) == SubSeq(s, SkipSpaces(s, 1), Len(s))

rstrip(s) == SubSeq(s, 1, SkipSpacesBack(s, Len(s)))

strip(s) == rstrip(lstrip(s))

\* s.split(sep): the list of the pieces between every occurrence of sep;
\* `from` is where the current piece starts, i the position being looked at
RECURSIVE splitFrom(_, _, _, _)
splitFrom(s, sep, from, i) ==
    IF i > Len(s) THEN <<SubSeq(s, from, Len(s))>>
    ELSE IF MatchAt(s, sep, i)
         THEN <<SubSeq(s, from, i - 1)>> \o splitFrom(s, sep, i + Len(sep), i + Len(sep))
         ELSE splitFrom(s, sep, from, i + 1)

split(s, sep) == splitFrom(s, sep, 1, 1)

\* the first position at or after i that holds whitespace, or Len(s) + 1
RECURSIVE FindSpace(_, _)
FindSpace(s, i) == IF i <= Len(s) /\ ~IsSpace(s[i]) THEN FindSpace(s, i + 1) ELSE i

\* s.split(None, 1): at most one split, at the first whitespace run
split_ws_1(s) ==
    LET t == lstrip(s)
        k == FindSpace(t, 1)
    IN  IF t = <<>> THEN <<>>
        ELSE IF k > Len(t) THEN <<t>>
        ELSE LET rest == lstrip(SubSeq(t, k + 1, Len(t)))
             IN  IF rest = <<>> THEN <<SubSeq(t, 1, k - 1)>>
                 ELSE <<SubSeq(t, 1, k - 1), rest>>

\* the same sequence with every element evaluated once
Evaluated(seq) == SubSeq(seq, 1, Len(seq))

UpperAlphabet == Chars("ABCDEFGHIJKLMNOPQRSTUVWXYZ")
LowerAlphabet == Chars("abcdefghijklmnopqrstuvwxyz")
Digits        == Chars("0123456789")

UpperLetters == { UpperAlphabet[i] : i \in 1..26 }

LowerOf == [c \in UpperLetters |->
                LowerAlphabet[CHOOSE i \in 1..26 : UpperAlphabet[i] = c]]

LowerChar(c) == IF c \in UpperLetters THEN LowerOf[c] ELSE c

\* s.lower()
lower(s) == [i \in 1..Len(s) |-> LowerChar(s[i])]

\* ord(c) for letters, digits and the space
OrdOf ==
    [c \in UpperLetters \cup { LowerAlphabet[i] : i \in 1..26 }
            \cup { Digits[i] : i \in 1..10 } \cup { " " } |->
        IF \E i \in 1..26 : UpperAlphabet[i] = c
            THEN 64 + (CHOOSE i \in 1..26 : UpperAlphabet[i] = c)
        ELSE IF \E i \in 1..26 : LowerAlphabet[i] = c
            THEN 96 + (CHOOSE i \in 1..26 : LowerAlphabet[i] = c)
        ELSE IF \E i \in 1..10 : Digits[i] = c
            THEN 47 + (CHOOSE i \in 1..10 : Digits[i] = c)
        ELSE 32]

ord(c) == OrdOf[c]

-----------------------------------------------------------------------------
(* get_kegg_genes (src/app.py 25-50) *)

TAG_GENE      == Chars("GENE")
TAG_COMPOUND  == Chars("COMPOUND")
TAG_REFERENCE == Chars("REFERENCE")
TAG_AUTHORS   == Chars("AUTHORS")
SEMI          == Chars(";")
SEMI_SPACE    == Chars("; ")

\* lines 34-38: the flag after the tag tests of one line
FlagAfter(line, flag) ==
    IF startswith(line, TAG_GENE) THEN TRUE
    ELSE IF startswith(line, TAG_COMPOUND) \/ startswith(line, TAG_REFERENCE)
            \/ startswith(line, TAG_AUTHORS)
         THEN FALSE
         ELSE flag

\* line 36: the value of `line` that reaches line 40
DataLine(line) ==
    IF startswith(line, TAG_GENE) THEN strip(replace(line, TAG_GENE, <<>>))
    ELSE line

\* lines 41-49 for one data line: [raised, recs]; parts[1] of a one-element
\* list raises IndexError
ParseDataLine(line) ==
    IF ~contains(line, SEMI) THEN [raised |-> FALSE, recs |-> <<>>]
    ELSE LET parts == split(line, SEMI_SPACE)
         IN  IF Len(parts) < 2 THEN [raised |-> TRUE, recs |-> <<>>]
             ELSE LET description    == strip(parts[2])
                      id_symbol_part == strip(parts[1])
                      sub_parts      == split_ws_1(id_symbol_part)
                  IN  IF Len(sub_parts) >= 2
                      THEN [raised |-> FALSE,
                            recs |-> << [ID          |-> strip(sub_parts[1]),
                                         Symbol      |-> strip(sub_parts[2]),
                                         Description |-> description] >>]
                      ELSE [raised |-> FALSE, recs |-> <<>>]

\* lines 33-49: one iteration of the for loop
LoopBody(line, flag) ==
    LET f == FlagAfter(line, flag)
        d == DataLine(line)
    IN  IF f /\ d # <<>>
        THEN [flag |-> f] @@ ParseDataLine(d)
        ELSE [flag |-> f, raised |-> FALSE, recs |-> <<>>]

-----------------------------------------------------------------------------
(* Inputs of SpecParse: records of at most MaxLines lines *)

MaxLines == 3

LineSet ==
    { Chars("GENE        3064  HTT; huntingtin"),
      Chars("GENE"),
      Chars("GENE        10  XGENEY; kinase"),
      Chars("            627  BDNF; brain derived neurotrophic factor"),
      Chars("            836  CASP3; caspase 3; apoptosis-related"),
      Chars("            5700  PSMC1;proteasome 26S subunit"),
      Chars("            continuation text"),
      Chars("            HTT; huntingtin"),
      Chars("NAME        Huntington disease; HD"),
      Chars("COMPOUND    C00002  ATP"),
      Chars("REFERENCE   PMID:1; note"),
      Chars("AUTHORS     Doe J; Roe R"),
      <<>> }

RECURSIVE SeqsUpTo(_, _)
SeqsUpTo(S, n) ==
    IF n = 0 THEN { <<>> }
    ELSE LET shorter == SeqsUpTo(S, n - 1)
         IN  shorter \cup { Append(t, x) : t \in shorter, x \in S }

Texts == SeqsUpTo(LineSet, MaxLines)

\* what requests.get can deliver: a 200 with a body, another status, or an
\* exception (connection error, timeout)
Responses ==
    { [kind |-> "http", status_code |-> 200, text |-> t] : t \in Texts }
    \cup { [kind |-> "http", status_code |-> s, text |-> t] :
             s \in {404, 500}, t \in { <<>>, <<Chars("GENE        3064  HTT; huntingtin")>> } }
    \cup { [kind |-> "exception", status_code |-> 0, text |-> <<>>] }

EmptyFrame == [kind |-> "DataFrame", rows |-> <<>>]

\* SpecParse starts before line 28 of one call; the other parts are idle
ParseInit ==
    /\ response \in Responses
    /\ ppc = "request"
    /\ idx = 0
    /\ is_gene_section = FALSE
    /\ genes = <<>>
    /\ origin = <<>>
    /\ flagAt = <<>>
    /\ rpc = "idle" /\ symbol = <<>> /\ desc = <<>> /\ disease_name = "" /\ role = ""
    /\ pc = "idle" /\ disease_choice = "" /\ tie = "" /\ df = <<>> /\ exc = "none"
    /\ top_10 = <<>> /\ selected_roles = {} /\ remove_core = FALSE
    /\ G = [nodes |-> <<>>, edges |-> {}] /\ tables = <<>> /\ res_df = <<>>
    /\ manuscript = <<>>

\* line 28: requests.get raises
RequestRaises ==
    /\ ppc = "request" /\ response.kind = "exception"
    /\ ppc' = "raised"
    /\ UNCHANGED <<response, idx, is_gene_section, genes, origin, flagAt, roleVars, pipeVars>>

\* lines 28-32: a response arrives; a 200 enters the loop, anything else skips it
RequestReturns ==
    /\ ppc = "request" /\ response.kind = "http"
    /\ ppc' = IF response.status_code = 200 THEN "scan" ELSE "return"
    /\ UNCHANGED <<response, idx, is_gene_section, genes, origin, flagAt, roleVars, pipeVars>>

\* lines 33-49: the next line of the body
ScanLine ==
    /\ ppc = "scan" /\ idx < Len(response.text)
    /\ LET r == LoopBody(response.text[idx + 1], is_gene_section)
       IN  /\ is_gene_section' = r.flag
           /\ flagAt' = Append(flagAt, r.flag)
           /\ idx' = idx + 1
           /\ genes' = genes \o r.recs
           /\ origin' = origin \o [j \in 1..Len(r.recs) |-> idx + 1]
           /\ ppc' = IF r.raised THEN "raised" ELSE "scan"
    /\ UNCHANGED <<response, roleVars, pipeVars>>

\* the loop is exhausted
ScanDone ==
    /\ ppc = "scan" /\ idx = Len(response.text)
    /\ ppc' = "return"
    /\ UNCHANGED <<response, idx, is_gene_section, genes, origin, flagAt, roleVars, pipeVars>>

\* line 50
Return ==
    /\ ppc = "return"
    /\ ppc' = "returned"
    /\ UNCHANGED <<response, idx, is_gene_section, genes, origin, flagAt, roleVars, pipeVars>>

\* the value of get_kegg_genes once it has returned
Result == [kind |-> "DataFrame", rows |-> genes]

ParseNext == RequestRaises \/ RequestReturns \/ ScanLine \/ ScanDone \/ Return

SpecParse == ParseInit /\ [][ParseNext]_vars

-----------------------------------------------------------------------------
(* Claims about get_kegg_genes, checked under SpecParse *)

\* C1: a fetch that fails (a status other than 200) yields a result the caller
\* can tell apart from a successful fetch that parsed zero genes, and the body
\* of a failed fetch is never parsed.
C1_FailedFetchIsExplicit ==
    (response.kind = "http" /\ response.status_code # 200)
        => /\ idx = 0
           /\ (ppc = "returned" => Result # EmptyFrame)

\* the record the claim describes for a data line: cut at the first ';' only
FirstSemicolon(s) ==
    CHOOSE i \in 1..Len(s) : s[i] = ";" /\ \A j \in 1..(i - 1) : s[j] # ";"

RecordAtFirstSemicolon(d) ==
    LET k      == FirstSemicolon(d)
        before == split_ws_1(strip(SubSeq(d, 1, k - 1)))
    IN  [ID          |-> before[1],
         Symbol      |-> before[2],
         Description |-> strip(SubSeq(d, k + 1, Len(d)))]

HasIdAndSymbol(d) ==
    Len(split_ws_1(strip(SubSeq(d, 1, FirstSemicolon(d) - 1)))) >= 2

\* C3: every data line of the GENE section that holds a ';' (and an id and a
\* symbol before it) is cut at its first ';' only, whether or not a space
\* follows the ';': it yields exactly the record with the whole trimmed text
\* after that ';' as description, and parsing it raises nothing.
C3_SplitAtFirstSemicolon ==
    \A i \in 1..idx :
        LET d == DataLine(response.text[i])
        IN  (flagAt[i] /\ contains(d, <<";">>) /\ HasIdAndSymbol(d))
                => /\ ~(ppc = "raised" /\ i = idx)
                   /\ \E j \in 1..Len(genes) :
                        origin[j] = i /\ genes[j] = RecordAtFirstSemicolon(d)

\* the flag the claim describes when line i is processed: some line at or
\* before i starts with GENE and no terminator line lies after it up to i
IsTerminator(line) ==
    startswith(line, TAG_COMPOUND) \/ startswith(line, TAG_REFERENCE)
        \/ startswith(line, TAG_AUTHORS)

InsideGene(text, i) ==
    \E p \in 1..i :
        /\ startswith(text[p], TAG_GENE)
        /\ \A q \in (p + 1)..i : ~IsTerminator(text[q])

\* the remainder of a GENE line after its tag
AfterTag(line) == strip(SubSeq(line, Len(TAG_GENE) + 1, Len(line)))

\* C4: the flag is set by a GENE line, cleared by a COMPOUND, REFERENCE or
\* AUTHORS line and changed by no other line; the first data line of the
\* section is the remainder of the GENE line after its tag; a record is emitted
\* for a line only if the flag is set when the line is processed; the records
\* are listed in the order of their source lines.
C4_SectionFlagScan ==
    /\ \A i \in 1..idx : flagAt[i] = InsideGene(response.text, i)
    /\ \A j \in 1..Len(genes) : flagAt[origin[j]]
    /\ \A j, k \in 1..Len(genes) : j < k => origin[j] < origin[k]
    /\ \A j \in 1..Len(genes) :
          LET line == response.text[origin[j]]
          IN  startswith(line, TAG_GENE)
                  => <<genes[j]>> = ParseDataLine(AfterTag(line)).recs

-----------------------------------------------------------------------------
(* assign_role (src/app.py 53-77) *)

CORE_GENE     == "Core Gene"
MITOCHONDRIAL == "Mitochondrial Dysfunction"
APOPTOSIS     == "Apoptosis"
SYNAPTIC      == "Synaptic / Excitotoxicity"
AUTOPHAGY     == "Autophagy"
PROTEOSTASIS  == "Proteostasis / PSMC"
PATHWAY_COMPONENT == "Pathway Component"

\* lines 14-22: the keys of role_colors, in insertion order
role_colors ==
    << CORE_GENE, MITOCHONDRIAL, APOPTOSIS, SYNAPTIC, AUTOPHAGY, PROTEOSTASIS,
       PATHWAY_COMPONENT >>

\* lines 54-68
core_dict ==
    [ d \in { "Huntington's", "Alzheimer's", "Parkinson's", "ALS", "Prion Disease",
              "Spinocerebellar Ataxia", "Spinal Muscular Atrophy",
              "Autism Spectrum Disorder", "Schizophrenia", "Bipolar Disorder",
              "Depression", "Type II Diabetes", "Insulin Resistance" } |->
        CASE d = "Huntington's" ->
                { Chars("HTT"), Chars("BDNF"), Chars("CASP3"), Chars("CREB1"),
                  Chars("TP53"), Chars("SOD1"), Chars("PPARGC1A") }
          [] d = "Alzheimer's" ->
                { Chars("APP"), Chars("MAPT"), Chars("APOE"), Chars("PSEN1"),
                  Chars("PSEN2"), Chars("BACE1") }
          [] d = "Parkinson's" ->
                { Chars("SNCA"), Chars("PRKN"), Chars("PINK1"), Chars("LRRK2"),
                  Chars("PARK7") }
          [] d = "ALS" ->
                { Chars("SOD1"), Chars("TARDBP"), Chars("FUS"), Chars("C9orf72"),
                  Chars("OPTN") }
          [] d = "Prion Disease" -> { Chars("PRNP"), Chars("TNP1"), Chars("STIP1") }
          [] d = "Spinocerebellar Ataxia" ->
                { Chars("ATXN1"), Chars("ATXN2"), Chars("ATXN3"), Chars("CACNA1A") }
          [] d = "Spinal Muscular Atrophy" ->
                { Chars("SMN1"), Chars("SMN2"), Chars("VAPB") }
          [] d = "Autism Spectrum Disorder" ->
                { Chars("SHANK3"), Chars("NLGN3"), Chars("NRXN1"), Chars("PTEN") }
          [] d = "Schizophrenia" ->
                { Chars("DRD2"), Chars("DISC1"), Chars("COMT"), Chars("GRIN2A") }
          [] d = "Bipolar Disorder" ->
                { Chars("ANK3"), Chars("CACNA1C"), Chars("CLOCK") }
          [] d = "Depression" ->
                { Chars("SLC6A4"), Chars("BDNF"), Chars("HTR1A"), Chars("MAOA") }
          [] d = "Type II Diabetes" ->
                { Chars("INS"), Chars("INSR"), Chars("IRS1"), Chars("SLC2A4") }
          [] d = "Insulin Resistance" ->
                { Chars("IRS1"), Chars("PIK3CA"), Chars("AKT1") } ]

\* the keywords of lines 72-76
KW_MITOCHOND == Chars("mitochond")
KW_ATP == Chars("atp")
KW_APOPT == Chars("apopt")
KW_CASPASE == Chars("caspase")
KW_AUTOPHAGY == Chars("autophagy")
KW_SYNAP == Chars("synap")
KW_GLUTAMATE == Chars("glutamate")
KW_PSM == Chars("psm")
KW_PROTEASOME == Chars("proteasome")

\* line 69: core_dict.get(disease_name, [])
CORE_GENES(dis) == IF dis \in DOMAIN core_dict THEN core_dict[dis] ELSE {}

\* assign_role with the tests of lines 71 and 72 exchanged
assign_role_mito_first(sym, d, dis) ==
    LET desc_lower == lower(d)
    IN  IF contains(desc_lower, KW_MITOCHOND) \/ contains(desc_lower, KW_ATP)
            THEN MITOCHONDRIAL
        ELSE IF sym \in CORE_GENES(dis) THEN CORE_GENE
        ELSE IF contains(desc_lower, KW_APOPT) \/ contains(desc_lower, KW_CASPASE)
            THEN APOPTOSIS
        ELSE IF contains(desc_lower, KW_AUTOPHAGY) THEN AUTOPHAGY
        ELSE IF contains(desc_lower, KW_SYNAP) \/ contains(desc_lower, KW_GLUTAMATE)
            THEN SYNAPTIC
        ELSE IF contains(sym, KW_PSM) \/ contains(desc_lower, KW_PROTEASOME)
            THEN PROTEOSTASIS
        ELSE PATHWAY_COMPONENT

\* lines 69-77
assign_role(sym, d, dis) ==
    LET desc_lower == lower(d)
    IN  IF sym \in CORE_GENES(dis) THEN CORE_GENE
        ELSE IF contains(desc_lower, KW_MITOCHOND) \/ contains(desc_lower, KW_ATP)
            THEN MITOCHONDRIAL
        ELSE IF contains(desc_lower, KW_APOPT) \/ contains(desc_lower, KW_CASPASE)
            THEN APOPTOSIS
        ELSE IF contains(desc_lower, KW_AUTOPHAGY) THEN AUTOPHAGY
        ELSE IF contains(desc_lower, KW_SYNAP) \/ contains(desc_lower, KW_GLUTAMATE)
            THEN SYNAPTIC
        ELSE IF contains(sym, KW_PSM) \/ contains(desc_lower, KW_PROTEASOME)
            THEN PROTEOSTASIS
        ELSE PATHWAY_COMPONENT

-----------------------------------------------------------------------------
(* Inputs of SpecRole: a symbol, a description of at most MaxPhrases phrases,
   a condition *)

MaxPhrases == 2

Symbols ==
    { Chars("HTT"), Chars("SOD1"), Chars("APP"), Chars("PSMC1"), Chars("PSMD2"),
      Chars("NDUFA1"), Chars("Hpsm1"), Chars("GRIN1") }

Phrases ==
    { Chars("mitochondria"), Chars("MITOCHONDRIAL import"), Chars("ATP synthase"),
      Chars("apoptosis regulator"), Chars("Caspase 3"), Chars("autophagy related"),
      Chars("synaptic vesicle"), Chars("glutamate receptor"),
      Chars("proteasome 26S subunit"), Chars("protein kinase"), <<>> }

RECURSIVE JoinPhrases(_)
JoinPhrases(ps) ==
    IF ps = <<>> THEN <<>>
    ELSE IF Len(ps) = 1 THEN ps[1]
    ELSE ps[1] \o Chars(", ") \o JoinPhrases(Tail(ps))

Descriptions == { JoinPhrases(ps) : ps \in SeqsUpTo(Phrases, MaxPhrases) \ { <<>> } }

Conditions == { "Huntington's", "Alzheimer's", "ALS", "Migraine" }

RoleInit ==
    /\ symbol \in Symbols
    /\ desc \in Descriptions
    /\ disease_name \in Conditions
    /\ rpc = "call"
    /\ role = ""
    /\ response = [kind |-> "exception", status_code |-> 0, text |-> <<>>]
    /\ ppc = "idle" /\ idx = 0 /\ is_gene_section = FALSE /\ genes = <<>>
    /\ origin = <<>> /\ flagAt = <<>>
    /\ pc = "idle" /\ disease_choice = "" /\ tie = "" /\ df = <<>> /\ exc = "none"
    /\ top_10 = <<>> /\ selected_roles = {} /\ remove_core = FALSE
    /\ G = [nodes |-> <<>>, edges |-> {}] /\ tables = <<>> /\ res_df = <<>>
    /\ manuscript = <<>>

\* one call of assign_role
Classify ==
    /\ rpc = "call"
    /\ role' = assign_role(symbol, desc, disease_name)
    /\ rpc' = "done"
    /\ UNCHANGED <<symbol, desc, disease_name, parseVars, pipeVars>>

RoleNext == Classify

SpecRole == RoleInit /\ [][RoleNext]_vars

-----------------------------------------------------------------------------
(* Claims about assign_role, checked under SpecRole *)

\* the five rules of the claim, by number, on the call's arguments
RuleMatches(n) ==
    LET dl == lower(desc)
    IN  CASE n = 1 -> symbol \in CORE_GENES(disease_name)
          [] n = 2 -> contains(dl, KW_MITOCHOND) \/ contains(dl, KW_ATP)
          [] n = 3 -> contains(dl, KW_APOPT) \/ contains(dl, KW_CASPASE)
          [] n = 4 -> contains(dl, KW_AUTOPHAGY)
          [] n = 5 -> contains(dl, KW_SYNAP) \/ contains(dl, KW_GLUTAMATE)

RuleLabel == << CORE_GENE, MITOCHONDRIAL, APOPTOSIS, AUTOPHAGY, SYNAPTIC >>

\* C5: when at least one of the five rules matches, the label returned is that
\* of the earliest matching rule; a core symbol whose description contains
\* "mitochondria" is a Core Gene; an unknown condition has an empty core set.
C5_FirstMatchWins ==
    rpc = "done" =>
        /\ \A n \in 1..5 :
              (RuleMatches(n) /\ \A m \in 1..(n - 1) : ~RuleMatches(m))
                  => role = RuleLabel[n]
        /\ (disease_name \notin DOMAIN core_dict) => role # CORE_GENE

\* a core symbol with a mitochondrial description has been classified
C5_Witness ==
    /\ rpc = "done"
    /\ symbol \in CORE_GENES(disease_name)
    /\ contains(lower(desc), Chars("mitochondria"))
    /\ role = CORE_GENE

\* C6: a gene matching none of rules 1-5 is Proteostasis exactly when its
\* symbol contains "PSM" (case-sensitive) or its lowercased description
\* contains "proteasome", and Pathway Component otherwise.
C6_ProteostasisRule ==
    (rpc = "done" /\ \A n \in 1..5 : ~RuleMatches(n)) =>
        role = IF contains(symbol, Chars("PSM"))
                    \/ contains(lower(desc), KW_PROTEASOME)
               THEN PROTEOSTASIS
               ELSE PATHWAY_COMPONENT

-----------------------------------------------------------------------------
(* One run of the script: LOAD DATA (src/app.py 118-131) *)

\* lines 33-49 run over lines lo..hi of the body, entered with the flag `flag`:
\* [raised, flag, rows].  The range is halved to keep the evaluation shallow;
\* the lines are still taken in order, and nothing after a raise is run.
RECURSIVE ScanRange(_, _, _, _)
ScanRange(text, lo, hi, flag) ==
    IF lo > hi THEN [raised |-> FALSE, flag |-> flag, rows |-> <<>>]
    ELSE IF lo = hi
         THEN LET r == LoopBody(text[lo], flag)
              IN  [raised |-> r.raised, flag |-> r.flag, rows |-> r.recs]
    ELSE LET mid   == (lo + hi) \div 2
             left  == ScanRange(text, lo, mid, flag)
         IN  IF left.raised THEN left
             ELSE LET right == ScanRange(text, mid + 1, hi, left.flag)
                  IN  [raised |-> right.raised, flag |-> right.flag,
                       rows |-> left.rows \o right.rows]

ScanAll(text) == ScanRange(text, 1, Len(text), FALSE)

\* lines 26-50 as one call, for a response that arrived
get_kegg_genes(resp) ==
    IF resp.status_code = 200 THEN ScanAll(resp.text)
    ELSE [raised |-> FALSE, rows |-> <<>>]

RECURSIVE SumOrd(_)
SumOrd(s) == IF s = <<>> THEN 0 ELSE ord(Head(s)) + SumOrd(Tail(s))

\* lines 124-125: np.random.seed(seed); np.random.randint(20, 60).  NumPy's
\* generator is not reproduced: the value is a fixed function of the seed with
\* values in 20..59, which is all the script relies on.
seeded_randint(seed) == 20 + (seed % 40)

high_lit ==
    { Chars("HTT"), Chars("BDNF"), Chars("APP"), Chars("MAPT"), Chars("SNCA"),
      Chars("PRKN"), Chars("SOD1"), Chars("INS"), Chars("CASP3"), Chars("TP53") }

\* lines 121-125
calculate_validation(sym) ==
    IF sym \in high_lit THEN 95 ELSE seeded_randint(SumOrd(sym))

\* lines 126-129, times 10 to stay in the integers: base * 6 + lit * 4.
\* "Core" occurs in the Core Gene label only.
calculate_priority(r, sym) ==
    (IF r = CORE_GENE THEN 100 ELSE 50) * 6 + calculate_validation(sym) * 4

\* lines 120-131: the three columns added to a parsed row
ScoredRow(g, dis) ==
    LET r == assign_role(g.Symbol, g.Description, dis)
    IN  [ID |-> g.ID, Symbol |-> g.Symbol, Description |-> g.Description,
         Role |-> r,
         Lit_Score |-> calculate_validation(g.Symbol),
         Score |-> calculate_priority(r, g.Symbol)]

\* lines 120, 130, 131 over the whole frame
ScoreFrame(rows, dis) == Evaluated([i \in 1..Len(rows) |-> ScoredRow(rows[i], dis)])

-----------------------------------------------------------------------------
(* pandas helpers *)

Min(a, b) == IF a <= b THEN a ELSE b

\* the row order of sort_values: the positions of `keys`, by key (descending
\* unless asc), rows of equal key in the build's order `t`
SortedPositions(keys, asc, t) ==
    SortSeq([i \in 1..Len(keys) |-> i],
            LAMBDA a, b :
                IF keys[a] # keys[b]
                THEN (IF asc THEN keys[a] < keys[b] ELSE keys[a] > keys[b])
                ELSE (IF t = "first" THEN a < b ELSE a > b))

\* rows order[1], ..., order[n] of the frame
TakeRows(frame, order, n) == Evaluated([j \in 1..n |-> frame[order[j]]])

\* frame.sort_values('Score', ascending=False).head(n)
TopByScore(frame, n, t) ==
    TakeRows(frame,
             SortedPositions([i \in 1..Len(frame) |-> frame[i].Score], FALSE, t),
             Min(n, Len(frame)))

CountRole(frame, r) == Cardinality({ i \in 1..Len(frame) : frame[i].Role = r })

-----------------------------------------------------------------------------
(* scipy.stats.fisher_exact(table, alternative='greater'), as exact fractions *)

RECURSIVE GCD(_, _)
GCD(a, b) == IF b = 0 THEN a ELSE GCD(b, a % b)

\* the fraction n/d in lowest terms
Frac(n, d) == LET g == GCD(n, d) IN [num |-> n \div g, den |-> d \div g]

FracLess(p, q) == p.num * q.den < q.num * p.den
FracLeq(p, q)  == p.num * q.den <= q.num * p.den

RECURSIVE binom(_, _)
binom(n, k) ==
    IF k < 0 \/ k > n THEN 0
    ELSE IF k = 0 THEN 1
    ELSE (binom(n, k - 1) * (n - k + 1)) \div k

\* the number of ways to draw `draws` of T items, K of them marked, with i
\* marked ones among the drawn, summed over i in lo..hi
HyperSum(T, K, draws, lo, hi) ==
    LET f[i \in (lo - 1)..hi] ==
            IF i < lo THEN 0
            ELSE f[i - 1] + binom(K, i) * binom(T - K, draws - i)
    IN  f[hi]

\* P(X >= a) for the table [[a, b], [c, d]] with fixed margins: the
\* hypergeometric tail scipy returns as the p-value.  The hypergeometric law
\* is symmetric in its margins; the sum is taken over the smallest margin,
\* which keeps the numbers small and does not change the value.
HyperTail(a, b, c, d) ==
    LET T    == a + b + c + d
        row1 == a + b
        row2 == c + d
        col1 == a + c
        col2 == b + d
        m    == Min(Min(row1, row2), Min(col1, col2))
    IN  IF m = row1 THEN Frac(HyperSum(T, col1, row1, a, row1), binom(T, row1))
        ELSE IF m = col1 THEN Frac(HyperSum(T, row1, col1, a, col1), binom(T, col1))
        ELSE IF m = col2 THEN Frac(HyperSum(T, row1, col2, 0, b), binom(T, col2))
        ELSE Frac(HyperSum(T, col1, row2, 0, c), binom(T, row2))

\* fisher_exact raises ValueError on a negative cell
fisher_exact(t) ==
    IF \E i \in 1..4 : t[i] < 0 THEN [raised |-> TRUE, p |-> Frac(0, 1)]
    ELSE [raised |-> FALSE, p |-> HyperTail(t[1], t[2], t[3], t[4])]

-----------------------------------------------------------------------------
(* Inputs of Spec: a KEGG record with up to MaxHead chosen gene lines followed
   by a run of generated ones, or a failed fetch *)

MaxHead == 2

TOP_10_HEAD == 10
PLOT_HEAD   == 50
n_sample    == 30

\* the gene lines the record can start with, in the order they keep
HeadLines ==
    << Chars("            3064  HTT; huntingtin"),
       Chars("            6647  SOD1; superoxide dismutase 1, mitochondrial"),
       Chars("            836  CASP3; caspase 3"),
       Chars("            4508  ATP6; ATP synthase 6"),
       Chars("            10  NAT2; N-acetyltransferase 2"),
       Chars("            3064  HTT; huntingtin isoform 2"),
       Chars("            5700  PSMC1;proteasome 26S subunit") >>

\* the lines of HeadLines at the positions I, in order
PickLines(I) ==
    LET at == SelectSeq([i \in 1..Len(HeadLines) |-> i], LAMBDA i : i \in I)
    IN  [k \in 1..Len(at) |-> HeadLines[at[k]]]

Heads ==
    { PickLines(I) : I \in { J \in SUBSET (1..Len(HeadLines)) : Cardinality(J) <= MaxHead } }

FillerDescriptions == { Chars("zinc finger protein"), Chars("apoptosis regulator") }

TwoDigits(i) == <<Digits[(i \div 10) + 1], Digits[(i % 10) + 1]>>

\* the i-th generated gene line: a fresh id and symbol
FillerLine(i, d) ==
    Chars("            7") \o TwoDigits(i) \o Chars("  ZNF") \o TwoDigits(i)
        \o Chars("; ") \o d

\* the record: the first gene line carries the GENE tag in its first columns
RecordText(head, pad, d) ==
    LET lines == head \o [i \in 1..pad |-> FillerLine(i, d)]
    IN  <<Chars("NAME        Pathway")>>
        \o (IF lines = <<>> THEN <<TAG_GENE>>
            ELSE <<TAG_GENE \o SubSeq(lines[1], 5, Len(lines[1]))>> \o Tail(lines))
        \o <<Chars("COMPOUND    C00002  ATP")>>

Pads == { 0, n_sample - MaxHead, n_sample, PLOT_HEAD }

PipeResponses ==
    { [kind |-> "http", status_code |-> 200, text |-> RecordText(h, n, d)] :
        h \in Heads, n \in Pads, d \in FillerDescriptions }
    \cup { [kind |-> "http", status_code |-> 200,
            text |-> <<Chars("NAME        Pathway")>>],
           [kind |-> "http", status_code |-> 404, text |-> <<>>],
           [kind |-> "exception", status_code |-> 0, text |-> <<>>] }

\* the conditions offered by the selectbox of line 114 that the model runs
Choices == { "Huntington's", "Alzheimer's" }

\* how the build's sort orders rows of equal key: in row order, or reversed
TieOrders == { "first", "last" }

Init ==
    /\ response \in PipeResponses
    /\ disease_choice \in Choices
    /\ tie \in TieOrders
    /\ pc = "load"
    /\ df = <<>> /\ exc = "none" /\ top_10 = <<>>
    /\ selected_roles = {} /\ remove_core = FALSE
    /\ G = [nodes |-> <<>>, edges |-> {}]
    /\ tables = <<>> /\ res_df = <<>> /\ manuscript = <<>>
    /\ ppc = "idle" /\ idx = 0 /\ is_gene_section = FALSE /\ genes = <<>>
    /\ origin = <<>> /\ flagAt = <<>>
    /\ rpc = "idle" /\ symbol = <<>> /\ desc = <<>> /\ disease_name = "" /\ role = ""

-----------------------------------------------------------------------------
(* The blocks of the script.  An uncaught exception ends the run. *)

\* lines 118-131
LoadData ==
    /\ pc = "load"
    /\ IF response.kind = "exception"
       THEN /\ exc' = "RequestException" /\ pc' = "crashed" /\ df' = df
       ELSE LET r == get_kegg_genes(response)
            IN  IF r.raised
                THEN /\ exc' = "IndexError" /\ pc' = "crashed" /\ df' = df
                ELSE /\ df' = ScoreFrame(r.rows, disease_choice)
                     /\ pc' = "tab1"
                     /\ exc' = exc
    /\ UNCHANGED <<disease_choice, tie, top_10, selected_roles, remove_core, G,
                   tables, res_df, manuscript, parseVars, roleVars>>

\* lines 139-162: df['Symbol'] of a frame without columns raises KeyError
Tab1 ==
    /\ pc = "tab1"
    /\ IF df = <<>>
       THEN /\ exc' = "KeyError" /\ pc' = "crashed" /\ top_10' = top_10
       ELSE /\ top_10' = TopByScore(df, TOP_10_HEAD, tie)
            /\ pc' = "tab2"
            /\ exc' = exc
    /\ UNCHANGED <<disease_choice, tie, df, selected_roles, remove_core, G, tables,
                   res_df, manuscript, parseVars, roleVars>>

\* G.add_node(sym, role=r): a node already present keeps its place and takes
\* the new attribute
add_node(nodes, sym, r) ==
    IF \E i \in 1..Len(nodes) : nodes[i].Symbol = sym
    THEN [i \in 1..Len(nodes) |->
            IF nodes[i].Symbol = sym THEN [Symbol |-> sym, role |-> r] ELSE nodes[i]]
    ELSE Append(nodes, [Symbol |-> sym, role |-> r])

\* lines 190-191 for rows lo..hi of plot_df, in row order (the range is halved
\* to keep the evaluation shallow)
RECURSIVE AddNodesRange(_, _, _, _)
AddNodesRange(nodes, frame, lo, hi) ==
    IF lo > hi THEN nodes
    ELSE IF lo = hi THEN add_node(nodes, frame[lo].Symbol, frame[lo].Role)
    ELSE LET mid  == (lo + hi) \div 2
             done == AddNodesRange(nodes, frame, lo, mid)
         IN  \* the test only makes the first half be computed before the second
             IF done = <<>> THEN AddNodesRange(<<>>, frame, mid + 1, hi)
             ELSE AddNodesRange(done, frame, mid + 1, hi)

AddNodes(frame) == AddNodesRange(<<>>, frame, 1, Len(frame))

\* lines 187-189: the truncation to 50 rows comes before the removal of core genes
PlotFrame(frame, sel, rc, t) ==
    LET top == TopByScore(SelectSeq(frame, LAMBDA r : r.Role \in sel), PLOT_HEAD, t)
    IN  IF rc THEN SelectSeq(top, LAMBDA r : r.Role # CORE_GENE) ELSE top

\* lines 192-196
SameRoleEdges(nodes) ==
    { {nodes[i].Symbol, nodes[j].Symbol} :
        <<i, j>> \in { q \in (1..Len(nodes)) \X (1..Len(nodes)) :
                        /\ q[1] < q[2]
                        /\ nodes[q[1]].role = nodes[q[2]].role
                        /\ nodes[q[1]].role # PATHWAY_COMPONENT } }

\* lines 186-196: the graph on the nodes added
BuildGraph(nodes) == [nodes |-> nodes, edges |-> SameRoleEdges(nodes)]

\* the multiselect of line 182 offers the roles present; the model leaves all
\* selected or clears one of them
RolesPresent(frame) == { frame[i].Role : i \in 1..Len(frame) }

\* lines 164-217
Tab2 ==
    /\ pc = "tab2"
    /\ \E off \in RolesPresent(df) \cup { "" }, rc \in BOOLEAN :
          /\ selected_roles' = RolesPresent(df) \ { off }
          /\ remove_core' = rc
          /\ G' = BuildGraph(AddNodes(PlotFrame(df, RolesPresent(df) \ { off }, rc, tie)))
    /\ pc' = "tab3"
    /\ UNCHANGED <<disease_choice, tie, df, exc, top_10, tables, res_df, manuscript,
                   parseVars, roleVars>>

\* line 226 and line 225: M in the population, k in the top n_sample rows;
\* line 228: the table handed to fisher_exact
ContingencyTable(frame, top_genes, r) ==
    LET k == CountRole(top_genes, r)
        M == CountRole(frame, r)
        N == Len(frame)
    IN  <<k, n_sample - k, M - k, N - M - (n_sample - k)>>

\* line 232 with the upper clip left out
AdjP_unclipped(raw, count) == Frac(raw.num * count, raw.den)

\* line 232: (raw * len(res_df)).clip(upper=1.0)
AdjP(raw, count) ==
    IF raw.num * count >= raw.den THEN Frac(1, 1)
    ELSE Frac(raw.num * count, raw.den)

\* line 231: sort_values("Raw P-Value"), ascending
SortByRawP(rows, t) ==
    TakeRows(rows,
             SortSeq([i \in 1..Len(rows) |-> i],
                     LAMBDA a, b :
                        IF rows[a].RawP # rows[b].RawP
                        THEN FracLess(rows[a].RawP, rows[b].RawP)
                        ELSE (IF t = "first" THEN a < b ELSE a > b)),
             Len(rows))

\* line 232 on the sorted rows
WithAdjP(sorted) ==
    [j \in 1..Len(sorted) |->
        [Mechanism |-> sorted[j].Mechanism, k |-> sorted[j].k, M |-> sorted[j].M,
         RawP |-> sorted[j].RawP, AdjP |-> AdjP(sorted[j].RawP, Len(sorted))]]

\* lines 231-232
EnrichmentTable(rows, t) == WithAdjP(SortByRawP(rows, t))

\* line 224 with the test of line 227: the mechanisms that reach fisher_exact
TestedRoles(frame) == SelectSeq(role_colors, LAMBDA r : CountRole(frame, r) > 0)

\* lines 224-228: the calls of fisher_exact, in the order of role_colors
FisherTests(frame, top_genes, tested) ==
    Evaluated([i \in 1..Len(tested) |->
        [Mechanism |-> tested[i],
         table |-> ContingencyTable(frame, top_genes, tested[i]),
         result |-> fisher_exact(ContingencyTable(frame, top_genes, tested[i]))]])

\* the first call that raises, or 0
FirstRaising(tests) ==
    IF \E i \in 1..Len(tests) : tests[i].result.raised
    THEN CHOOSE i \in 1..Len(tests) :
            tests[i].result.raised /\ \A j \in 1..(i - 1) : ~tests[j].result.raised
    ELSE 0

\* the tables of the first n calls
TablesOf(tests, n) ==
    [i \in 1..n |-> [Mechanism |-> tests[i].Mechanism, table |-> tests[i].table]]

\* line 229: the rows appended to enrich_results
RawRows(tests) ==
    [i \in 1..Len(tests) |->
        [Mechanism |-> tests[i].Mechanism,
         k |-> tests[i].table[1],
         M |-> tests[i].table[1] + tests[i].table[3],
         RawP |-> tests[i].result.p]]

\* lines 224-264 given the calls of fisher_exact; `pressed` is the button of
\* line 260
Tab3Effect(tests, pressed) ==
    IF FirstRaising(tests) # 0
    THEN /\ tables' = TablesOf(tests, FirstRaising(tests))
         /\ exc' = "ValueError" /\ pc' = "crashed"
         /\ UNCHANGED <<res_df, manuscript>>
    ELSE /\ tables' = TablesOf(tests, Len(tests))
         /\ IF tests = <<>>
            THEN \* sort_values on a frame without columns
                 /\ exc' = "KeyError" /\ pc' = "crashed"
                 /\ UNCHANGED <<res_df, manuscript>>
            ELSE /\ res_df' = EnrichmentTable(RawRows(tests), tie)
                 /\ IF pressed /\ Len(top_10) < 2
                    THEN \* top_10.iloc[1]
                         /\ exc' = "IndexError" /\ pc' = "crashed"
                         /\ manuscript' = manuscript
                    ELSE /\ manuscript' =
                              IF pressed
                              THEN << [top_mech |-> res_df'[1].Mechanism,
                                       top_p |-> res_df'[1].AdjP,
                                       top_gene |-> top_10[1].Symbol,
                                       secondary_gene |-> top_10[2].Symbol] >>
                              ELSE manuscript
                         /\ pc' = "done"
                         /\ exc' = exc

\* lines 219-290
Tab3 ==
    /\ pc = "tab3"
    /\ \E pressed \in BOOLEAN :
          Tab3Effect(FisherTests(df, TopByScore(df, n_sample, tie), TestedRoles(df)),
                     pressed)
    /\ UNCHANGED <<disease_choice, tie, df, top_10, selected_roles, remove_core, G,
                   parseVars, roleVars>>

Next == LoadData \/ Tab1 \/ Tab2 \/ Tab3

Spec == Init /\ [][Next]_vars

-----------------------------------------------------------------------------
(* Claims about one run of the script, checked under Spec *)

\* the fetch succeeded and the parser returned a table without rows
ParsedZeroGenes ==
    /\ response.kind = "http" /\ response.status_code = 200
    /\ ~get_kegg_genes(response).raised
    /\ get_kegg_genes(response).rows = <<>>

\* C2: a run that parses zero genes skips every later stage and ends in an
\* explicit "no genes found" state: no stage after the parser reads a column
\* of the empty table and no exception is raised.
C2_EmptyTableShortCircuits ==
    (pc # "load" /\ df = <<>> /\ ParsedZeroGenes) => (exc = "none" /\ pc # "crashed")

\* C7: the enrichment table never holds a row for Pathway Component.
C7_NoPathwayComponentRow ==
    \A j \in 1..Len(res_df) : res_df[j].Mechanism # PATHWAY_COMPONENT

FracEq(p, q) == p.num * q.den = q.num * p.den

\* the mechanisms of role_colors with a gene in the population: the ones tested
MechanismsTested ==
    Cardinality({ i \in 1..Len(role_colors) : CountRole(df, role_colors[i]) > 0 })

\* C8: in every row adjP = min(1, rawP * number of mechanisms tested), so
\* 0 <= rawP <= adjP <= 1; no row belongs to a mechanism without a gene in the
\* population; the rows ascend by adjP, rows of equal adjP by rawP.
C8_EnrichmentTableWellFormed ==
    \A j \in 1..Len(res_df) :
        LET row    == res_df[j]
            scaled == [num |-> row.RawP.num * MechanismsTested, den |-> row.RawP.den]
        IN  /\ row.RawP.den > 0 /\ row.AdjP.den > 0
            /\ row.RawP.num >= 0
            /\ FracLeq(row.RawP, row.AdjP)
            /\ row.AdjP.num <= row.AdjP.den
            /\ IF scaled.num >= scaled.den
               THEN row.AdjP.num = row.AdjP.den
               ELSE FracEq(row.AdjP, scaled)
            /\ CountRole(df, row.Mechanism) > 0
            /\ j < Len(res_df) =>
                  /\ FracLeq(row.AdjP, res_df[j + 1].AdjP)
                  /\ FracEq(row.AdjP, res_df[j + 1].AdjP)
                        => FracLeq(row.RawP, res_df[j + 1].RawP)

\* a finished run whose table has several rows, one of them scaled but not
\* clipped and one of them clipped to 1
C8_Witness ==
    /\ pc = "done"
    /\ Len(res_df) >= 2
    /\ \E j \in 1..Len(res_df) :
          FracLess(res_df[j].RawP, res_df[j].AdjP) /\ res_df[j].AdjP.num < res_df[j].AdjP.den
    /\ \E j \in 1..Len(res_df) : res_df[j].AdjP.num = res_df[j].AdjP.den

\* the rows that pass the role filter and the optional exclusion of core genes
EligibleRows ==
    SelectSeq(df, LAMBDA r : r.Role \in selected_roles
                              /\ (remove_core => r.Role # CORE_GENE))

\* C9: once the interactome is built, it has PLOT_HEAD nodes whenever at least
\* PLOT_HEAD eligible genes exist and no two of them share a symbol, and every
\* edge joins two distinct nodes of the node set.
C9_InteractomeNodeCount ==
    pc \in { "tab3", "done" } =>
        LET eligible == EligibleRows
            symbols  == { eligible[i].Symbol : i \in 1..Len(eligible) }
            nodeSet  == { G.nodes[i].Symbol : i \in 1..Len(G.nodes) }
        IN  /\ (Len(eligible) >= PLOT_HEAD /\ Cardinality(symbols) = Len(eligible))
                  => Len(G.nodes) = PLOT_HEAD
            /\ \A e \in G.edges : e \subseteq nodeSet /\ Cardinality(e) = 2

\* C10: for a population of any size, every cell of every table handed to
\* fisher_exact is a non-negative integer.
C10_TableCellsNonNegative ==
    \A i \in 1..Len(tables) : \A c \in 1..4 : tables[i].table[c] >= 0

====
